---- MODULE Spec2Model ----
(***************************************************************************)
(* simple-shell: the read-dispatch loop of src/src/main.rs and the Shell   *)
(* helpers of src/src/shell.rs, together with the part of the operating    *)
(* system the loop acts on: process groups, the controlling terminal's     *)
(* foreground group, signal dispositions, the child processes.             *)
(*                                                                         *)
(* Strings are sequences of one-character strings; the character "NUL" is  *)
(* the null byte.                                                          *)
(***************************************************************************)
EXTENDS Integers, Sequences, FiniteSets, TLC

\* ------------------------------------------------------------------ bounds

\* Children the model lets the interpreter create in one run.
MaxChildren == 2
\* Longest line of the parser's exhaustive specification (SpecParse).
MaxLen == 4
\* The interpreter's pid; the process that launched it owns group ShellPid - 1,
\* children get ShellPid + 1, ShellPid + 2, ...
ShellPid == 2

ParentPgid == ShellPid - 1
ChildPids == (ShellPid + 1) .. (ShellPid + MaxChildren)

\* ------------------------------------------------------------ libc values

\* The job-control signals of main.rs:28-32 and shell.rs:36-40.
JobSignals == {"SIGINT", "SIGQUIT", "SIGTSTP", "SIGTTIN", "SIGTTOU"}

\* Exit status of a Rust process that panicked (an unwrap() on Err/None).
PanicCode == 101

\* ---------------------------------------------------------------- strings

WhiteSpace == {" ", "\t", "\n"}

RECURSIVE trim_start(_)
trim_start(s) ==
    IF s = <<>> THEN <<>>
    ELSE IF Head(s) \in WhiteSpace THEN trim_start(Tail(s)) ELSE s

RECURSIVE trim_end(_)
trim_end(s) ==
    IF s = <<>> THEN <<>>
    ELSE IF s[Len(s)] \in WhiteSpace THEN trim_end(SubSeq(s, 1, Len(s) - 1)) ELSE s

\* str::trim
trim(s) == trim_end(trim_start(s))

\* A trim_white that leaves the trailing whitespace.
trim_white_start_only(line) == trim_start(line)

\* Shell::trim_white
trim_white(line) == trim(line)

\* Index of the first " " of s, 0 when there is none.
FirstSpace(s) ==
    IF \E i \in 1..Len(s) : s[i] = " "
    THEN CHOOSE i \in 1..Len(s) : s[i] = " " /\ \A j \in 1..(i - 1) : s[j] # " "
    ELSE 0

\* str::split(" "): the pieces between single spaces, empty pieces kept.
RECURSIVE split(_)
split(s) ==
    LET i == FirstSpace(s) IN
    IF i = 0 THEN <<s>>
    ELSE <<SubSeq(s, 1, i - 1)>> \o split(SubSeq(s, i + 1, Len(s)))

\* CString::new(s) is Err exactly when s holds a null byte.
HasNul(s) == \E i \in 1..Len(s) : s[i] = "NUL"

\* A cmd_parse that forgets to trim the line.
cmd_parse_untrimmed(line) ==
    LET toks == split(line) IN
    IF \E i \in 1..Len(toks) : HasNul(toks[i])
    THEN [tag |-> "panic", val |-> <<>>]
    ELSE [tag |-> "Ok", val |-> toks]

\* Shell::cmd_parse: trim, split on " ", CString::new(..).unwrap() on every
\* token.  The unwrap panics on a null byte; the function has no Err return.
cmd_parse(line) ==
    LET toks == split(trim(line)) IN
    IF \E i \in 1..Len(toks) : HasNul(toks[i])
    THEN [tag |-> "panic", val |-> <<>>]
    ELSE [tag |-> "Ok", val |-> toks]


\* ------------------------------------------------------------- the inputs

S_cd == <<"c", "d">>
S_exit == <<"e", "x", "i", "t">>
S_history == <<"h", "i", "s", "t", "o", "r", "y">>
S_ls == <<"l", "s">>
S_root == <<"/">>
S_home == <<"/", "h">>
S_missing == <<"/", "x">>

\* The lines the line editor hands to the loop.
InputLines ==
    { <<>>, <<" ", "\t">>,
      S_cd, S_cd \o <<" ">> \o S_root, S_cd \o <<" ">> \o S_missing,
      S_cd \o <<" ">> \o S_home,
      S_exit, S_exit \o <<" ", "7">>, S_exit \o <<" ", "x">>,
      S_exit \o <<" ", "2", "5", "6">>,
      S_history,
      S_ls, <<" ">> \o S_ls \o <<" ", "-", "a", " ">>,
      <<"l", "NUL">> }

\* rustyline's errors: Interrupted (CTRL-C), Eof (CTRL-D), any other.
ReadErrors == {"Interrupted", "Eof", "Other"}

\* Directories that exist; every other path makes chdir fail.
Dirs == {S_root, S_home}
\* pw_dir of the user's passwd entry.
PwDir == S_home
\* Values of HOME at startup; <<>> stands for "not set".
HomeValues == {<<>>, S_home, S_missing}

\* What read_to_string("history.txt") may find: no file or an empty one, a
\* file rustyline wrote ("#V2\n" and the entries), a short file of another
\* origin.
HistoryFiles ==
    { <<>>,
      <<"#", "V", "2", "\n">> \o S_ls \o <<"\n">>,
      <<"#", "V", "2", "\n">>,
      <<"#", "V">> }

\* Values of MY_PROMPT at startup: not set, "foo>", the empty string.
S_foo_prompt == <<"f", "o", "o", ">">>
PromptValues ==
    { [set |-> FALSE, val |-> <<>>],
      [set |-> TRUE, val |-> S_foo_prompt],
      [set |-> TRUE, val |-> <<>>] }

\* The line-discipline settings the terminal may have when the interpreter
\* starts.
TermModes == {"cooked", "noecho"}
\* std::mem::zeroed::<termios>() (shell.rs:29).
ZeroedTermios == "zeroed"

\* ------------------------------------------------------------------ state

VARIABLES
    pc,             \* where main is: init, signals, read, parse, dispatch,
                    \* spawn, setpgid, tcsetpgrp, exited
    exit_code,      \* the interpreter's exit status, -1 while it runs
    exit_how,       \* running | return | exit | panic | signal
    line,           \* the line read in this iteration
    cmd,            \* the parsed command of this iteration
    shell_pgid,     \* Shell.shell_pgid
    child_pid,      \* main's local child_pid
    shell_sig,      \* the interpreter's disposition of each job-control signal
    env_home,       \* the environment variable HOME
    cwd,            \* the process working directory
    pgid,           \* kernel: process -> its process group (0: no such process)
    procs,          \* kernel: the children created so far
    alive,          \* kernel: the children still running
    csig,           \* kernel: child -> its signal dispositions at creation
    fg,             \* kernel: the terminal's foreground process group
    sig_to,         \* the group the last keyboard signal went to (0: none yet)
    spawn_attempts, \* posix_spawnp calls of this iteration
    last_child,     \* the pid the kernel gave this iteration's child (0: none)
    handoff,        \* fg has been last_child's group since its creation
    tc_last,        \* pgrp argument of this iteration's last tcsetpgrp (-1: none)
    builtin_branch, \* the branch do_builtin took in this iteration
    builtin_rc,     \* what do_builtin returned in this iteration
    report,         \* what this iteration wrote to stderr
    env_prompt,     \* the environment variable MY_PROMPT
    prompt,         \* Shell.prompt
    shell_tmodes,   \* Shell.shell_tmodes ("none" before init)
    term_mode,      \* kernel: the terminal's line-discipline settings
    term_at_init,   \* the terminal's settings when init ran ("none" before)
    trimmed,        \* what trim_white returned, when it is called on its own
    added,          \* add_history_entry was called in this iteration
    hist_read,      \* what the history builtin read in this iteration
    printed,        \* what the history builtin printed in this iteration
    shown           \* the prompt the last readline call displayed

vars == <<pc, exit_code, exit_how, line, cmd, shell_pgid, child_pid, shell_sig,
          env_home, cwd, pgid, procs, alive, csig, fg, sig_to, spawn_attempts,
          last_child, handoff, tc_last, builtin_branch, builtin_rc, report,
          env_prompt, prompt, shell_tmodes, term_mode, term_at_init, trimmed,
          added, hist_read, printed, shown>>

shellv == <<shell_pgid, child_pid, shell_sig>>
fsv == <<env_home, cwd>>
kernelv == <<pgid, procs, alive, csig, fg>>
iterv == <<spawn_attempts, last_child, handoff, tc_last, builtin_branch,
           builtin_rc, report>>

sessionv == <<env_prompt, prompt, shell_tmodes, term_mode, term_at_init, trimmed>>
outv == <<added, hist_read, printed>>
restv == <<sessionv, outv, shown>>

AllDefault == [s \in JobSignals |-> "dfl"]
\* An init that forgets SIGINT.
AllIgnoredButInt == [s \in JobSignals |-> IF s = "SIGINT" THEN "dfl" ELSE "ign"]
AllIgnored == [s \in JobSignals |-> "ign"]

\* The state main starts in: the interpreter is the terminal's foreground
\* process, either in a group of its own (started by a job-control shell) or
\* in the group of the process that started it.
Init ==
    /\ pc = "init"
    /\ exit_code = -1
    /\ exit_how = "running"
    /\ line = <<>>
    /\ cmd = <<>>
    /\ shell_pgid = 0
    /\ child_pid = 0
    /\ shell_sig = AllDefault
    /\ env_home \in HomeValues
    /\ cwd = S_root
    /\ \E g \in {ShellPid, ParentPgid} :
          /\ pgid = [p \in {ShellPid} \cup ChildPids |-> IF p = ShellPid THEN g ELSE 0]
          /\ fg = g
    /\ procs = {}
    /\ alive = {}
    /\ csig = [p \in ChildPids |-> AllDefault]
    /\ sig_to = 0
    /\ spawn_attempts = 0
    /\ last_child = 0
    /\ handoff = FALSE
    /\ tc_last = -1
    /\ builtin_branch = "none"
    /\ builtin_rc = "none"
    /\ report = "none"
    /\ env_prompt \in PromptValues
    /\ prompt = <<>>
    /\ shell_tmodes = "none"
    /\ term_mode \in TermModes
    /\ term_at_init = "none"
    /\ trimmed = <<>>
    /\ added = FALSE
    /\ hist_read = <<>>
    /\ printed = <<>>
    /\ shown = [set |-> FALSE, val |-> <<>>]


\* ----------------------------------------------------- the kernel's calls

\* setpgid(pid, g) called by `caller`: pid 0 is the caller, g 0 is the
\* target's own pid.  A process may move itself; a child that has already
\* executed its program cannot be moved by its parent (EACCES), and posix_spawnp
\* returns only after the child has; any other pid is ESRCH.  A failed call
\* leaves the map as it is.
setpgid_os(map, caller, pid, g) ==
    LET target == IF pid = 0 THEN caller ELSE pid
        group == IF g = 0 THEN target ELSE g
    IN  IF target = caller THEN [map EXCEPT ![caller] = group] ELSE map

\* tcsetpgrp(fd, pgrp): the foreground group becomes pgrp when pgrp is the
\* group of some process of the session; otherwise the call fails (ESRCH,
\* EPERM) and the foreground group stays.
tcsetpgrp_os(cur, map, pgrp) ==
    IF pgrp # 0 /\ \E p \in DOMAIN map : map[p] = pgrp THEN pgrp ELSE cur

\* chdir(path): 0 and the new directory, or -1 and the old one.
chdir_os(dir, path) ==
    IF path \in Dirs THEN [rc |-> 0, cwd |-> path] ELSE [rc |-> -1, cwd |-> dir]

\* ------------------------------------------------------ the spawn request

\* Flags without POSIX_SPAWN_SETPGROUP.
SpawnFlagsNoPgroup == {"POSIX_SPAWN_SETSIGDEF"}

\* posix_spawnattr_setflags (main.rs:72-77).
SpawnFlags == {"POSIX_SPAWN_SETPGROUP", "POSIX_SPAWN_SETSIGDEF"}

\* posix_spawnattr_setpgroup(&mut attr, 0) (main.rs:78).
SpawnPgroup == 0

\* sigemptyset(&mut sig_default); posix_spawnattr_setsigdefault (main.rs:80-82):
\* the set of signals to reset to default in the child is empty.
SpawnSigDefault == {}

\* The group of a new child p of a parent in group parent_group.
SpawnedPgid(p, parent_group) ==
    IF "POSIX_SPAWN_SETPGROUP" \in SpawnFlags
    THEN (IF SpawnPgroup = 0 THEN p ELSE SpawnPgroup)
    ELSE parent_group

\* The dispositions a new child starts with: default for the signals of the
\* sigdefault set, and for the others what the parent has (an ignored signal
\* stays ignored across exec).
SpawnedSig(parent_sig) ==
    [s \in JobSignals |->
        IF "POSIX_SPAWN_SETSIGDEF" \in SpawnFlags /\ s \in SpawnSigDefault
        THEN "dfl" ELSE parent_sig[s]]

\* ------------------------------------------------------------ the builtins

\* A builtin list that misses "history".
builtin_cmds_short == {S_cd, S_exit}

\* main.rs:35
builtin_cmds == {S_cd, S_exit, S_history}

DigitVal ==
    ("0" :> 0) @@ ("1" :> 1) @@ ("2" :> 2) @@ ("3" :> 3) @@ ("4" :> 4) @@
    ("5" :> 5) @@ ("6" :> 6) @@ ("7" :> 7) @@ ("8" :> 8) @@ ("9" :> 9)

RECURSIVE DigitsValue(_)
DigitsValue(ds) ==
    IF ds = <<>> THEN 0
    ELSE 10 * DigitsValue(SubSeq(ds, 1, Len(ds) - 1)) + DigitVal[ds[Len(ds)]]

\* i32::MAX
I32Max == 2147483647

\* str::parse::<i32>: an optional sign, then one or more digits, in range.
ParseI32(tok) ==
    LET signed == tok # <<>> /\ Head(tok) \in {"+", "-"}
        ds == IF signed THEN Tail(tok) ELSE tok
        wellformed == ds # <<>> /\ \A i \in 1..Len(ds) : ds[i] \in DOMAIN DigitVal
        v == IF ~wellformed THEN 0
             ELSE IF signed /\ Head(tok) = "-" THEN 0 - DigitsValue(ds)
             ELSE DigitsValue(ds)
    IN  [ok |-> wellformed /\ v >= (0 - I32Max) - 1 /\ v <= I32Max, val |-> v]

\* An exit that loses its argument.
ExitStatusZero(n) == 0

\* The status a process that calls exit(n) is seen to end with.
ExitStatus(n) == n % 256

\* The branch of do_builtin's if/else chain (shell.rs:175-204).
do_builtin_branch(argv) ==
    IF argv[1] = S_exit THEN "exit"
    ELSE IF argv[1] = S_cd THEN "cd"
    ELSE IF argv[1] = S_history THEN "history"
    ELSE "other"

\* A change_dir that always goes home.
change_dir_target_home(dir) == IF env_home # <<>> THEN env_home ELSE PwDir

\* The directory change_dir asks chdir for (shell.rs:95-121).
change_dir_target(dir) ==
    IF Len(dir) <= 1
    THEN (IF env_home # <<>> THEN env_home ELSE PwDir)
    ELSE dir[2]


\* The default prompt (shell.rs:81).
S_shell_prompt == <<"s", "h", "e", "l", "l", ">">>

\* A get_prompt that never looks at the environment.
get_prompt_default_only(env) == S_shell_prompt

\* Shell::get_prompt (shell.rs:78-83) with env the variable's state.
get_prompt(env) == IF env.set THEN env.val ELSE S_shell_prompt

\* A skip test that forgets to trim.
is_blank_untrimmed(l) == l = <<>>

\* main.rs:41: line.trim().is_empty()
is_blank(l) == trim(l) = <<>>

\* ------------------------------------------------------------ the actions

ResetIteration ==
    /\ spawn_attempts' = 0
    /\ last_child' = 0
    /\ handoff' = FALSE
    /\ tc_last' = -1
    /\ builtin_branch' = "none"
    /\ builtin_rc' = "none"
    /\ hist_read' = <<>>
    /\ printed' = <<>>

Terminate(code, how) ==
    /\ pc' = "exited"
    /\ exit_code' = code
    /\ exit_how' = how

\* Shell::init (shell.rs:25-50): the interpreter takes a process group of its
\* own, makes it the terminal's foreground group and ignores the job-control
\* signals.
ShellInit ==
    /\ pc = "init"
    /\ shell_pgid' = ShellPid
    /\ pgid' = setpgid_os(pgid, ShellPid, ShellPid, ShellPid)
    /\ fg' = tcsetpgrp_os(fg, pgid', ShellPid)
    /\ shell_sig' = AllIgnored
    /\ shell_tmodes' = ZeroedTermios
    /\ term_at_init' = term_mode
    /\ prompt' = get_prompt(env_prompt)
    /\ pc' = "signals"
    /\ UNCHANGED <<exit_code, exit_how, line, cmd, child_pid, fsv, procs, alive,
                   csig, sig_to, iterv, env_prompt, term_mode, trimmed, outv, shown>>

\* main.rs:27-33: the five signal(.., SIG_IGN) calls of main.
MainSignals ==
    /\ pc = "signals"
    /\ shell_sig' = [s \in JobSignals |-> "ign"]
    /\ pc' = "read"
    /\ UNCHANGED <<exit_code, exit_how, line, cmd, shell_pgid, child_pid, fsv,
                   kernelv, sig_to, iterv, restv>>

\* main.rs:38-45: readline returns Ok(l).  A line that is empty after trim
\* is skipped (continue); any other is added to the history and goes on to
\* cmd_parse.
ReadLine(l) ==
    /\ pc = "read"
    /\ line' = l
    /\ cmd' = <<>>
    /\ ResetIteration
    /\ report' = "none"
    /\ shown' = [set |-> TRUE, val |-> prompt]
    /\ added' = ~is_blank(l)
    /\ pc' = IF is_blank(l) THEN "read" ELSE "parse"
    /\ UNCHANGED <<exit_code, exit_how, shellv, fsv, kernelv, sig_to, sessionv>>

\* main.rs:119-138: readline returns Err(e); the loop breaks (after an
\* eprintln for an error that is neither CTRL-C nor CTRL-D), the history is
\* saved and main returns Ok(()).  Shell::destroy is not called.
ReadError(e) ==
    /\ pc = "read"
    /\ line' = <<>>
    /\ cmd' = <<>>
    /\ ResetIteration
    /\ report' = IF e = "Other" THEN "read_error" ELSE "none"
    /\ shown' = [set |-> TRUE, val |-> prompt]
    /\ added' = FALSE
    /\ Terminate(0, "return")
    /\ UNCHANGED <<shellv, fsv, kernelv, sig_to, sessionv>>

\* main.rs:46-47,116: Shell::cmd_parse(line) and the match on its result.
CmdParse ==
    /\ pc = "parse"
    /\ LET r == cmd_parse(line) IN
       CASE r.tag = "Ok" ->
              /\ cmd' = r.val
              /\ pc' = "dispatch"
              /\ UNCHANGED <<exit_code, exit_how, report>>
         [] r.tag = "Err" ->
              /\ cmd' = <<>>
              /\ report' = "parse_error"
              /\ pc' = "read"
              /\ UNCHANGED <<exit_code, exit_how>>
         [] OTHER ->
              /\ cmd' = <<>>
              /\ Terminate(PanicCode, "panic")
              /\ UNCHANGED report
    /\ UNCHANGED <<line, shellv, fsv, kernelv, sig_to, spawn_attempts, last_child,
                   handoff, tc_last, builtin_branch, builtin_rc, restv>>

\* The characters do_builtin cuts off the history file: nth(4) (shell.rs:196).
HistoryPrefixLen == 4

\* Shell::do_builtin (shell.rs:169-206) on cmd, with `hist` what
\* read_to_string("history.txt") finds.
DoBuiltin(hist) ==
    LET branch == do_builtin_branch(cmd) IN
    /\ builtin_branch' = branch
    /\ CASE branch = "exit" ->
              LET n == IF Len(cmd) > 1 THEN ParseI32(cmd[2]) ELSE [ok |-> TRUE, val |-> 0]
              IN  /\ IF n.ok THEN Terminate(ExitStatus(n.val), "exit")
                             ELSE Terminate(PanicCode, "panic")
                  /\ UNCHANGED <<cwd, builtin_rc, hist_read, printed>>
         [] branch = "cd" ->
              LET r == chdir_os(cwd, change_dir_target(cmd)) IN
              /\ cwd' = r.cwd
              /\ builtin_rc' = IF r.rc = 0 THEN "Ok" ELSE "Err(-1)"
              /\ pc' = "read"
              /\ UNCHANGED <<exit_code, exit_how, hist_read, printed>>
         [] branch = "history" ->
              /\ hist_read' = hist
              /\ IF hist = <<>> \/ Len(hist) > HistoryPrefixLen
                 THEN /\ printed' = SubSeq(hist, HistoryPrefixLen + 1, Len(hist))
                      /\ builtin_rc' = "Ok"
                      /\ pc' = "read"
                      /\ UNCHANGED <<exit_code, exit_how>>
                 ELSE /\ Terminate(PanicCode, "panic")
                      /\ UNCHANGED <<builtin_rc, printed>>
              /\ UNCHANGED cwd
         [] OTHER ->
              /\ builtin_rc' = "Err(-1)"
              /\ pc' = "read"
              /\ UNCHANGED <<exit_code, exit_how, cwd, hist_read, printed>>

\* main.rs:48-62: the first token decides between do_builtin and the spawn.
Dispatch ==
    /\ pc = "dispatch"
    /\ IF cmd[1] \in builtin_cmds
       THEN \E hist \in HistoryFiles : DoBuiltin(hist)
       ELSE /\ pc' = "spawn"
            /\ UNCHANGED <<exit_code, exit_how, cwd, builtin_branch, builtin_rc,
                           hist_read, printed>>
    /\ UNCHANGED <<line, cmd, shellv, env_home, kernelv, sig_to, spawn_attempts,
                   last_child, handoff, tc_last, report, sessionv, added, shown>>

\* main.rs:64-109: the spawn attributes and posix_spawnp.  Its pid argument is
\* `child_pid as *mut pid_t`, the null pointer, so the child's pid is not
\* stored and child_pid stays 0.  On failure: eprintln and exit(1).  The
\* kernel refuses a new process once MaxChildren exist (EAGAIN).
Spawn ==
    /\ pc = "spawn"
    /\ spawn_attempts' = spawn_attempts + 1
    /\ \E ok \in BOOLEAN :
          IF ok /\ Cardinality(procs) < MaxChildren
          THEN LET p == ShellPid + Cardinality(procs) + 1 IN
               /\ procs' = procs \cup {p}
               /\ alive' = alive \cup {p}
               /\ pgid' = [pgid EXCEPT ![p] = SpawnedPgid(p, pgid[ShellPid])]
               /\ csig' = [csig EXCEPT ![p] = SpawnedSig(shell_sig)]
               /\ last_child' = p
               /\ handoff' = (fg = pgid'[p])
               /\ pc' = "setpgid"
               /\ UNCHANGED <<exit_code, exit_how, report>>
          ELSE /\ report' = "spawn_failed"
               /\ Terminate(1, "exit")
               /\ UNCHANGED <<procs, alive, pgid, csig, last_child, handoff>>
    /\ UNCHANGED <<line, cmd, shellv, fsv, fg, sig_to, tc_last, builtin_branch,
                   builtin_rc, restv>>

\* main.rs:111: setpgid(child_pid, child_pid).
Setpgid ==
    /\ pc = "setpgid"
    /\ pgid' = setpgid_os(pgid, ShellPid, child_pid, child_pid)
    /\ handoff' = (handoff \/ fg = pgid'[last_child])
    /\ pc' = "tcsetpgrp"
    /\ UNCHANGED <<exit_code, exit_how, line, cmd, shellv, fsv, procs, alive, csig,
                   fg, sig_to, spawn_attempts, last_child, tc_last, builtin_branch,
                   builtin_rc, report, restv>>

\* main.rs:112-113,133: tcsetpgrp(shell.shell_terminal, child_pid), then the
\* end of the iteration.
Tcsetpgrp ==
    /\ pc = "tcsetpgrp"
    /\ fg' = tcsetpgrp_os(fg, pgid, child_pid)
    /\ tc_last' = child_pid
    /\ handoff' = (handoff \/ fg' = pgid[last_child])
    /\ pc' = "read"
    /\ UNCHANGED <<exit_code, exit_how, line, cmd, shellv, fsv, pgid, procs, alive,
                   csig, sig_to, spawn_attempts, last_child, builtin_branch,
                   builtin_rc, report, restv>>

\* A child ends by itself.  Nothing waits for it.
ChildExit(p) ==
    /\ p \in alive
    /\ alive' = alive \ {p}
    /\ UNCHANGED <<pc, exit_code, exit_how, line, cmd, shellv, fsv, pgid, procs,
                   csig, fg, sig_to, iterv, restv>>

KeyboardSignals == {"SIGINT", "SIGQUIT", "SIGTSTP"}

\* The user types a signal key: the terminal sends s to every process of its
\* foreground group.  A process that ignores s is untouched; SIGINT and SIGQUIT
\* end one with the default disposition, SIGTSTP stops it.
TtySignal(s) ==
    /\ pc # "exited"
    /\ sig_to' = fg
    /\ alive' = IF s = "SIGTSTP" THEN alive
                ELSE {p \in alive : ~(pgid[p] = fg /\ csig[p][s] = "dfl")}
    /\ IF pgid[ShellPid] = fg /\ shell_sig[s] = "dfl" /\ s # "SIGTSTP"
       THEN Terminate(128, "signal")
       ELSE UNCHANGED <<pc, exit_code, exit_how>>
    /\ UNCHANGED <<line, cmd, shellv, fsv, pgid, procs, csig, fg, iterv, restv>>

Next ==
    \/ ShellInit
    \/ MainSignals
    \/ \E l \in InputLines : ReadLine(l)
    \/ \E e \in ReadErrors : ReadError(e)
    \/ CmdParse
    \/ Dispatch
    \/ Spawn
    \/ Setpgid
    \/ Tcsetpgrp
    \/ \E p \in ChildPids : ChildExit(p)
    \/ \E s \in KeyboardSignals : TtySignal(s)

Spec == Init /\ [][Next]_vars

\* ----------------------------------------------- the shutdown, when called

\* The exit status of a process ended by SIGTERM, as a shell reports it.
SigtermStatus == 143

\* Shell::destroy (shell.rs:52-65): the terminal is given back to the
\* interpreter's group, shell_tmodes is installed as the terminal's settings,
\* the job-control signals get their default disposition and the process sends
\* itself SIGTERM.  main never calls it; here a caller does, where the loop has
\* ended.
Destroy ==
    /\ pc = "read"
    /\ fg' = tcsetpgrp_os(fg, pgid, shell_pgid)
    /\ term_mode' = shell_tmodes
    /\ shell_sig' = AllDefault
    /\ Terminate(SigtermStatus, "sigterm")
    /\ UNCHANGED <<line, cmd, shell_pgid, child_pid, fsv, pgid, procs, alive, csig,
                   sig_to, iterv, env_prompt, prompt, shell_tmodes, term_at_init,
                   trimmed, outv, shown>>

\* The interpreter of Spec with Shell::destroy called at some point of the
\* loop, as the lifecycle init .. destroy asks.
SpecDestroy == Init /\ [][Next \/ Destroy]_vars


\* ------------------------------------------- cmd_parse called on its own

\* The characters of the exhaustive lines: a letter, a dash, the space, the
\* tab and the null byte.
Alphabet == {"a", "-", " ", "\t", "NUL"}

AllLines == UNION {[1..k -> Alphabet] : k \in 0..MaxLen}

\* Shell::cmd_parse called directly on any line (as the tests of
\* shell.rs:236-261 call it), in an interpreter that has finished init.
InitParse ==
    /\ pc = "parse"
    /\ exit_code = -1
    /\ exit_how = "running"
    /\ line \in AllLines
    /\ cmd = <<>>
    /\ shell_pgid = ShellPid
    /\ child_pid = 0
    /\ shell_sig = AllIgnored
    /\ env_home = S_home
    /\ cwd = S_root
    /\ pgid = [p \in {ShellPid} \cup ChildPids |-> IF p = ShellPid THEN ShellPid ELSE 0]
    /\ fg = ShellPid
    /\ procs = {}
    /\ alive = {}
    /\ csig = [p \in ChildPids |-> AllDefault]
    /\ sig_to = 0
    /\ spawn_attempts = 0
    /\ last_child = 0
    /\ handoff = FALSE
    /\ tc_last = -1
    /\ builtin_branch = "none"
    /\ builtin_rc = "none"
    /\ report = "none"
    /\ env_prompt = [set |-> FALSE, val |-> <<>>]
    /\ prompt = S_shell_prompt
    /\ shell_tmodes = ZeroedTermios
    /\ term_mode = "cooked"
    /\ term_at_init = "cooked"
    /\ trimmed = <<>>
    /\ added = FALSE
    /\ hist_read = <<>>
    /\ printed = <<>>
    /\ shown = [set |-> FALSE, val |-> <<>>]

SpecParse == InitParse /\ [][CmdParse]_vars

\* ------------------------------------------ trim_white called on its own

\* Shell::trim_white called directly on any line (as the tests of
\* shell.rs:263-296 call it).
InitTrim ==
    /\ pc = "trim"
    /\ exit_code = -1
    /\ exit_how = "running"
    /\ line \in AllLines
    /\ cmd = <<>>
    /\ shell_pgid = ShellPid
    /\ child_pid = 0
    /\ shell_sig = AllIgnored
    /\ env_home = S_home
    /\ cwd = S_root
    /\ pgid = [p \in {ShellPid} \cup ChildPids |-> IF p = ShellPid THEN ShellPid ELSE 0]
    /\ fg = ShellPid
    /\ procs = {}
    /\ alive = {}
    /\ csig = [p \in ChildPids |-> AllDefault]
    /\ sig_to = 0
    /\ spawn_attempts = 0
    /\ last_child = 0
    /\ handoff = FALSE
    /\ tc_last = -1
    /\ builtin_branch = "none"
    /\ builtin_rc = "none"
    /\ report = "none"
    /\ env_prompt = [set |-> FALSE, val |-> <<>>]
    /\ prompt = S_shell_prompt
    /\ shell_tmodes = ZeroedTermios
    /\ term_mode = "cooked"
    /\ term_at_init = "cooked"
    /\ trimmed = <<>>
    /\ added = FALSE
    /\ hist_read = <<>>
    /\ printed = <<>>
    /\ shown = [set |-> FALSE, val |-> <<>>]

\* shell.rs:151-153: the call and its return value.
CallTrimWhite ==
    /\ pc = "trim"
    /\ trimmed' = trim_white(line)
    /\ pc' = "trimmed"
    /\ UNCHANGED <<exit_code, exit_how, line, cmd, shellv, fsv, kernelv, sig_to,
                   iterv, env_prompt, prompt, shell_tmodes, term_mode,
                   term_at_init, outv, shown>>

SpecTrim == InitTrim /\ [][CallTrimWhite]_vars

\* ============================================================== the claims

\* An external command's dispatch has run to its end: a child was created and
\* the loop is back at readline.
ExternalDone == pc = "read" /\ last_child # 0

\* C1: for every external command whose process creation succeeds, the
\* terminal's foreground group is the interpreter's group right before the
\* process is created, has been the created child's group at some point
\* between the creation and the end of the dispatch, and is the interpreter's
\* group again when the dispatch has ended.
C1_ForegroundRoundTrip ==
    /\ (pc = "spawn" => fg = shell_pgid)
    /\ (ExternalDone => handoff /\ fg = shell_pgid)

\* C2: when the loop reads the next line after an external command, the
\* terminal's foreground group has been set back to the interpreter's group:
\* the dispatch's last tcsetpgrp call named the interpreter's group, and that
\* group is the foreground group.
C2_TerminalReclaimed ==
    ExternalDone => (tc_last = shell_pgid /\ fg = shell_pgid)

\* C3: the interpreter waits for the child it created before it reads another
\* line: at most one child is running at any time, and none is running when
\* the loop is back at readline after an external command.
C3_SynchronousWait ==
    /\ Cardinality(alive) <= 1
    /\ (ExternalDone => last_child \notin alive)

\* C4: a keyboard signal typed while a child is running (its handoff step
\* done) goes to that child's process group and never to the interpreter's.
C4_SignalRouting ==
    [][ ( /\ \E s \in KeyboardSignals : TtySignal(s)
          /\ alive # {}
          /\ pc \notin {"setpgid", "tcsetpgrp"} )
        => ( /\ sig_to' # pgid[ShellPid]
             /\ \E p \in alive : sig_to' = pgid[p] ) ]_vars

\* C5: every child starts with the default disposition for each of SIGINT,
\* SIGQUIT, SIGTSTP, SIGTTIN and SIGTTOU.
C5_ChildSignalsDefault ==
    \A p \in procs : \A s \in {"SIGINT", "SIGQUIT", "SIGTSTP", "SIGTTIN", "SIGTTOU"} :
        csig[p][s] = "dfl"

\* C6: every child is in a process group of its own, whose id is the child's
\* pid and which is not the interpreter's group; and the interpreter's group
\* is, once init has run, the one init gave it whatever commands were launched.
C6_ChildProcessGroup ==
    /\ \A p \in procs : pgid[p] = p /\ pgid[p] # pgid[ShellPid]
    /\ (shell_pgid # 0 => pgid[ShellPid] = shell_pgid /\ shell_pgid = ShellPid)

\* C6's case: an external command has been launched, its child sits in its
\* own group and the loop is back at readline.
C6_Witness ==
    /\ ExternalDone
    /\ pgid[last_child] = last_child
    /\ tc_last = 0

\* C7: when launching an external command fails, the failure is reported and
\* the interpreter keeps running.
C7_LaunchFailureNotFatal ==
    report = "spawn_failed" => exit_how = "running"

\* The dispatch of this iteration's command is over.
DispatchDone == cmd # <<>> /\ pc \in {"setpgid", "tcsetpgrp", "read", "exited"}

\* C8: a dispatched "cd", "exit" or "history" never attempts process creation
\* and is handled by do_builtin (never its 'not a builtin' branch); any other
\* name attempts process creation exactly once and never enters do_builtin.
C8_BuiltinExclusivity ==
    DispatchDone =>
        IF cmd[1] \in {<<"c", "d">>, <<"e", "x", "i", "t">>,
                       <<"h", "i", "s", "t", "o", "r", "y">>}
        THEN /\ spawn_attempts = 0
             /\ last_child = 0
             /\ builtin_branch \in {"cd", "exit", "history"}
             /\ builtin_rc \in {"none", "Ok", "Err(-1)"}
        ELSE /\ spawn_attempts = 1
             /\ builtin_branch = "none"

\* C8's case: "history" has been dispatched and handled in the interpreter
\* after an earlier external command had created a child.
C8_Witness ==
    /\ pc = "read"
    /\ cmd = <<S_history>>
    /\ builtin_rc = "Ok"
    /\ spawn_attempts = 0
    /\ procs # {}

RECURSIVE Join(_)
Join(toks) ==
    IF Len(toks) = 1 THEN toks[1] ELSE toks[1] \o <<" ">> \o Join(Tail(toks))

\* t is l without its leading and trailing whitespace.
IsTrimOf(t, l) ==
    \E i \in 0..Len(l) : \E j \in 0..(Len(l) - i) :
        /\ t = SubSeq(l, i + 1, Len(l) - j)
        /\ \A k \in 1..i : l[k] \in {" ", "\t", "\n"}
        /\ \A k \in (Len(l) - j + 1)..Len(l) : l[k] \in {" ", "\t", "\n"}
        /\ (t = <<>> \/ (t[1] \notin {" ", "\t", "\n"} /\ t[Len(t)] \notin {" ", "\t", "\n"}))

\* C9: for every line without a null byte cmd_parse returns Ok with a
\* non-empty token sequence that is the split of the trimmed line on single
\* spaces (no token holds a space, and the tokens joined by single spaces
\* are the trimmed line), "foo -v" gives ["foo", "-v"] and "ls -a -l" gives
\* ["ls", "-a", "-l"]; the call leaves the process state as it was.
C9_Parsing ==
    /\ (pc # "parse" /\ ~HasNul(line)) =>
          /\ pc = "dispatch"
          /\ cmd # <<>>
          /\ \A i \in 1..Len(cmd) : \A k \in 1..Len(cmd[i]) : cmd[i][k] # " "
          /\ IsTrimOf(Join(cmd), line)
          /\ fg = ShellPid /\ procs = {} /\ cwd = <<"/">> /\ report = "none"
          /\ pgid[ShellPid] = ShellPid /\ exit_how = "running"
    /\ cmd_parse(<<"f", "o", "o", " ", "-", "v">>)
          = [tag |-> "Ok", val |-> << <<"f", "o", "o">>, <<"-", "v">> >>]
    /\ cmd_parse(<<"l", "s", " ", "-", "a", " ", "-", "l">>)
          = [tag |-> "Ok", val |-> << <<"l", "s">>, <<"-", "a">>, <<"-", "l">> >>]

\* C9's case: a line with leading whitespace and two tokens has been parsed.
C9_Witness ==
    /\ pc = "dispatch"
    /\ line = <<"\t", "a", " ", "-">>
    /\ cmd = << <<"a">>, <<"-">> >>

\* C10: for a line with a null byte cmd_parse returns Err, the loop reports
\* the parse error, dispatches nothing and goes back to readline; the
\* interpreter keeps running.
C10_ParseErrorHandled ==
    (HasNul(line) /\ pc # "parse") =>
        /\ pc = "read"
        /\ report = "parse_error"
        /\ exit_how = "running"
        /\ spawn_attempts = 0


\* "exit" has been dispatched with no argument or with a decimal integer.
ExitDispatched ==
    /\ DispatchDone
    /\ cmd[1] = <<"e", "x", "i", "t">>
    /\ (Len(cmd) > 1 => cmd[2] \in {<<"7">>, <<"2", "5", "6">>})

\* The integer an "exit" command names, 0 for a bare "exit".
ExitArgument ==
    IF Len(cmd) = 1 THEN 0
    ELSE IF cmd[2] = <<"7">> THEN 7
    ELSE 256

\* C11 (as claimed): "exit n" ends the interpreter with exit code n, bare
\* "exit" with exit code 0, and control never returns to the loop.
C11_ExitCodeIsArgument ==
    ExitDispatched =>
        pc = "exited" /\ exit_how = "exit" /\ exit_code = ExitArgument

\* C11 (amended): "exit n" ends the interpreter with exit code n mod 256 (n
\* itself for 0 <= n <= 255), bare "exit" with exit code 0, and control never
\* returns to the loop.
C11_ExitCodeModulo ==
    ExitDispatched =>
        /\ pc = "exited" /\ exit_how = "exit"
        /\ exit_code = ExitArgument % 256
        /\ (ExitArgument \in 0..255 => exit_code = ExitArgument)

\* C11's case: "exit 7" has ended the interpreter with code 7.
C11_Witness ==
    /\ pc = "exited"
    /\ cmd = << <<"e", "x", "i", "t">>, <<"7">> >>
    /\ exit_code = 7

\* "cd" has been dispatched.
CdDispatched == DispatchDone /\ cmd[1] = <<"c", "d">>

C13_CdFailureReported ==
    (CdDispatched /\ builtin_rc \notin {"Ok", "none"}) =>
        /\ report = "chdir_error"
        /\ pc = "read"
        /\ exit_how = "running"

\* C14: when the read loop has ended and the process with it, destroy has run
\* (the terminal is the interpreter's, the saved mode is installed, the
\* job-control signals are at default, the process ended by its own SIGTERM),
\* and after an unrecoverable line-input error the exit status is not 0.
C14_ShutdownBracket ==
    (pc = "exited" /\ exit_how \in {"return", "sigterm"}) =>
        /\ exit_how = "sigterm"
        /\ shell_sig = [s \in JobSignals |-> "dfl"]
        /\ term_mode = shell_tmodes
        /\ fg = shell_pgid
        /\ (report = "read_error" => exit_code # 0)

\* l is empty or whitespace only.
IsBlankLine(l) == \A k \in 1..Len(l) : l[k] \in {" ", "\t", "\n"}

\* C15: reading an empty or whitespace-only line leads back to readline with
\* nothing parsed, no builtin run, no process created, nothing added to the
\* history, and the process and kernel state as they were.
C15_WhitespaceSkip ==
    [][ (\E l \in InputLines : IsBlankLine(l) /\ ReadLine(l))
        => ( /\ pc' = "read"
             /\ cmd' = <<>>
             /\ added' = FALSE
             /\ spawn_attempts' = 0 /\ last_child' = 0
             /\ builtin_branch' = "none" /\ builtin_rc' = "none"
             /\ UNCHANGED <<kernelv, fsv, shellv, exit_how>> ) ]_vars

\* C15's case: a whitespace-only line has been read and skipped in a session
\* that had launched a command before.
C15_Witness ==
    /\ pc = "read"
    /\ line = <<" ", "\t">>
    /\ shown.set
    /\ added = FALSE
    /\ procs # {}

\* C16: whatever the history store holds, the history builtin returns Ok, the
\* interpreter keeps running, and what is printed is the empty string for an
\* empty or unreadable store and otherwise the content without its first 4
\* characters.
C16_HistoryNeverFails ==
    (DispatchDone /\ cmd[1] = <<"h", "i", "s", "t", "o", "r", "y">>) =>
        /\ builtin_rc = "Ok"
        /\ exit_how = "running"
        /\ printed = IF hist_read = <<>> THEN <<>>
                     ELSE SubSeq(hist_read, 5, Len(hist_read))

\* The prompt the environment asks for.
ExpectedPrompt ==
    IF env_prompt.set THEN env_prompt.val ELSE <<"s", "h", "e", "l", "l", ">">>

C18_Trim ==
    pc = "trimmed" =>
        /\ IsTrimOf(trimmed, line)
        /\ (IsBlankLine(line) => trimmed = <<>>)
        /\ trim_white(trimmed) = trimmed

\* C18's case: a line with whitespace on both sides has been trimmed.
C18_Witness ==
    /\ pc = "trimmed"
    /\ line = <<" ", "a", "-", "\t">>
    /\ trimmed = <<"a", "-">>

\* C19: the terminal mode destroy installs is the mode the terminal had when
\* init ran: after init and destroy the terminal's mode is as at startup.
C19_TerminalModeRoundTrip ==
    exit_how = "sigterm" => term_mode = term_at_init

\* C20: once init has returned the interpreter ignores SIGINT, SIGQUIT,
\* SIGTSTP, SIGTTIN and SIGTTOU until destroy resets them, and no keyboard
\* signal ends it.
C20_SignalsIgnored ==
    shell_pgid # 0 =>
        /\ exit_how # "signal"
        /\ (exit_how # "sigterm" =>
              \A s \in {"SIGINT", "SIGQUIT", "SIGTSTP", "SIGTTIN", "SIGTTOU"} :
                  shell_sig[s] = "ign")

\* C20's case: a keyboard signal has gone to the interpreter's group after an
\* external command, and the interpreter is still at its loop.
C20_Witness ==
    /\ shell_pgid # 0
    /\ sig_to = shell_pgid
    /\ pc = "read"
    /\ exit_how = "running"
    /\ last_child # 0

====
